---- MODULE Spec2Model ----
(***************************************************************************)
(* A model of the query side of the search engine:                         *)
(*   - the posting-list codec (DirectoryListData: iter, union,             *)
(*     intersection, exclusion) over big-endian 16-bit packed blobs,       *)
(*   - the DirectoryList algebra (Empty, Full, Sparse(data, negated)),     *)
(*   - the planner (plan_query, plan_query_combinator) and the boolean     *)
(*     stack machine of RocksDBIndexReader::search,                        *)
(* and of the write side: SegmentBuilder::add_document.                    *)
(* Four specifications share the variables:                                *)
(*   SpecCodec   one call of a DirectoryListData combinator,               *)
(*   SpecAlgebra one call of a DirectoryList operation,                    *)
(*   Spec        one run of search, opcode by opcode,                      *)
(*   SpecBuilder a sequence of add_document calls on one SegmentBuilder.   *)
(***************************************************************************)
EXTENDS Integers, Sequences, FiniteSets, TLC

VARIABLES
    pc,          \* position of search: "off", "idle", "exec", "done", "panic"
    query,       \* the query handed to search
    plan,        \* SearchPlan: [boolean_query, score_function]
    ip,          \* index (1-based) of the next opcode of plan.boolean_query
    stack,       \* the Vec<DirectoryList> of search
    snapshot,    \* what the snapshot has answered so far, per posting-list key
    read_errors, \* number of snapshot reads that returned Err during this search
    collected,   \* the (DocId, score) pairs search has handed to the Collector
    self,        \* receiver of the method call (SpecCodec, SpecAlgebra)
    other,       \* argument of the method call
    called,      \* the method that was called, "none" before the call
    result,      \* the value the method returned
    builder,     \* the SegmentBuilder: a record of the struct's fields
    calls,       \* history: the add_document calls that returned, in order
    skipped,     \* history: the empty documents added after the first call
    overflow_checks, \* whether the build panics on integer overflow
    saturating_casts, \* whether the build saturates float-to-integer casts
    panicked     \* whether an add_document call has panicked

vars == <<pc, query, plan, ip, stack, snapshot, read_errors, collected, self, other, called, result,
          builder, calls, skipped, overflow_checks, saturating_casts, panicked>>

searchVars == <<pc, query, plan, ip, stack, snapshot, read_errors, collected>>
callVars == <<self, other, called, result>>
builderVars == <<builder, calls, skipped, overflow_checks, saturating_casts, panicked>>

----------------------------------------------------------------------------
(* Bounds *)

\* number of DocIds of the segment (and of the codec's inputs)
NumDocs == 3

\* largest number of nodes of a query tree
MaxNodes == 3

\* the i-th DocId the model uses: spread so that both bytes of the u16 vary
DocIdOf(i) == i * 255

\* the segment's universe of DocIds
Universe == { DocIdOf(i) : i \in 0 .. NumDocs - 1 }

----------------------------------------------------------------------------
(* Posting-list codec: DirectoryListData *)

\* BigEndian::write_u16 followed by the two pushes onto data
write_u16(data, doc_id) == data \o << doc_id \div 256, doc_id % 256 >>

\* BigEndian::read_u16
read_u16(hi, lo) == hi * 256 + lo

\* DirectoryListDataIterator: the u16s next() yields until read_exact fails
RECURSIVE iter_bytes(_)
iter_bytes(bytes) ==
    IF Len(bytes) < 2 THEN << >>
    ELSE << read_u16(bytes[1], bytes[2]) >> \o iter_bytes(SubSeq(bytes, 3, Len(bytes)))

\* DirectoryListData::iter (get_cursor reads Owned and FromRDB alike)
iter(d) == iter_bytes(d.bytes)

Owned(bytes) == [kind |-> "Owned", bytes |-> bytes]
FromRDB(bytes) == [kind |-> "FromRDB", bytes |-> bytes]

Tail2(s) == SubSeq(s, 2, Len(s))

\* itertools::merge of two iterators: the smaller head first, the left one on
\* a tie; every item of both inputs is yielded
RECURSIVE merge(_, _)
merge(a, b) ==
    IF a = << >> THEN b
    ELSE IF b = << >> THEN a
    ELSE IF a[1] <= b[1] THEN << a[1] >> \o merge(Tail2(a), b)
    ELSE << b[1] >> \o merge(a, Tail2(b))

RECURSIVE write_all(_, _)
write_all(data, doc_ids) ==
    IF doc_ids = << >> THEN data
    ELSE write_all(write_u16(data, doc_ids[1]), Tail2(doc_ids))

\* DirectoryListData::union
DirectoryListData_union(d, o) == Owned(write_all(<< >>, merge(iter(d), iter(o))))

\* the loop of DirectoryListData::intersection
RECURSIVE intersection_loop(_, _, _)
intersection_loop(a, b, data) ==
    IF a = << >> THEN data
    ELSE IF b = << >> THEN data
    ELSE IF a[1] = b[1] THEN intersection_loop(Tail2(a), Tail2(b), write_u16(data, a[1]))
    ELSE IF a[1] > b[1] THEN intersection_loop(a, Tail2(b), data)
    ELSE intersection_loop(Tail2(a), b, data)

\* DirectoryListData::intersection
DirectoryListData_intersection(d, o) == Owned(intersection_loop(iter(d), iter(o), << >>))

\* the loop of DirectoryListData::exclusion
RECURSIVE exclusion_loop(_, _, _)
exclusion_loop(a, b, data) ==
    IF a = << >> THEN data
    ELSE IF b = << >> THEN exclusion_loop(Tail2(a), b, write_u16(data, a[1]))
    ELSE IF a[1] = b[1] THEN exclusion_loop(Tail2(a), Tail2(b), data)
    ELSE IF a[1] > b[1] THEN exclusion_loop(a, Tail2(b), data)
    ELSE exclusion_loop(Tail2(a), b, write_u16(data, a[1]))

\* a slip of exclusion: stop, instead of draining a, once b is exhausted
RECURSIVE exclusion_loop_nodrain(_, _, _)
exclusion_loop_nodrain(a, b, data) ==
    IF a = << >> THEN data
    ELSE IF b = << >> THEN data
    ELSE IF a[1] = b[1] THEN exclusion_loop_nodrain(Tail2(a), Tail2(b), data)
    ELSE IF a[1] > b[1] THEN exclusion_loop_nodrain(a, Tail2(b), data)
    ELSE exclusion_loop_nodrain(Tail2(a), b, write_u16(data, a[1]))

DirectoryListData_exclusion_nodrain(d, o) ==
    Owned(exclusion_loop_nodrain(iter(d), iter(o), << >>))

\* DirectoryListData::exclusion
DirectoryListData_exclusion(d, o) == Owned(exclusion_loop(iter(d), iter(o), << >>))

----------------------------------------------------------------------------
(* DirectoryList *)

Empty == [tag |-> "Empty"]
Full == [tag |-> "Full"]
Sparse(data, negated) == [tag |-> "Sparse", data |-> data, negated |-> negated]

\* DirectoryList::intersection
DirectoryList_intersection(a, b) ==
    IF a.tag = "Empty" THEN Empty
    ELSE IF a.tag = "Full" THEN b
    ELSE IF ~a.negated THEN
        IF b.tag = "Empty" THEN Empty
        ELSE IF b.tag = "Full" THEN Sparse(a.data, FALSE)
        ELSE IF ~b.negated THEN Sparse(DirectoryListData_intersection(a.data, b.data), FALSE)
        ELSE Sparse(DirectoryListData_exclusion(a.data, b.data), FALSE)
    ELSE
        IF b.tag = "Empty" THEN Empty
        ELSE IF b.tag = "Full" THEN Sparse(a.data, TRUE)
        ELSE IF ~b.negated THEN Sparse(DirectoryListData_exclusion(b.data, a.data), FALSE)
        ELSE Sparse(DirectoryListData_union(a.data, b.data), TRUE)

\* a slip of union: the operands of the exclusion swapped in the
\* Sparse(a, true), Sparse(b, false) cell
DirectoryList_union_swapped(a, b) ==
    IF a.tag = "Empty" THEN b
    ELSE IF a.tag = "Full" THEN Full
    ELSE IF ~a.negated THEN
        IF b.tag = "Empty" THEN Sparse(a.data, FALSE)
        ELSE IF b.tag = "Full" THEN Full
        ELSE IF ~b.negated THEN Sparse(DirectoryListData_union(a.data, b.data), FALSE)
        ELSE Sparse(DirectoryListData_exclusion(b.data, a.data), TRUE)
    ELSE
        IF b.tag = "Empty" THEN Sparse(a.data, TRUE)
        ELSE IF b.tag = "Full" THEN Full
        ELSE IF ~b.negated THEN Sparse(DirectoryListData_exclusion(b.data, a.data), TRUE)
        ELSE Sparse(DirectoryListData_intersection(a.data, b.data), TRUE)

\* DirectoryList::union
DirectoryList_union(a, b) ==
    IF a.tag = "Empty" THEN b
    ELSE IF a.tag = "Full" THEN Full
    ELSE IF ~a.negated THEN
        IF b.tag = "Empty" THEN Sparse(a.data, FALSE)
        ELSE IF b.tag = "Full" THEN Full
        ELSE IF ~b.negated THEN Sparse(DirectoryListData_union(a.data, b.data), FALSE)
        ELSE Sparse(DirectoryListData_exclusion(b.data, a.data), TRUE)
    ELSE
        IF b.tag = "Empty" THEN Sparse(a.data, TRUE)
        ELSE IF b.tag = "Full" THEN Full
        ELSE IF ~b.negated THEN Sparse(DirectoryListData_exclusion(a.data, b.data), TRUE)
        ELSE Sparse(DirectoryListData_intersection(a.data, b.data), TRUE)

\* a slip of exclusion: Full minus a Sparse value stays Full
DirectoryList_exclusion_fullstays(a, b) ==
    IF a.tag = "Empty" THEN Empty
    ELSE IF a.tag = "Full" THEN
        IF b.tag = "Empty" THEN Full
        ELSE IF b.tag = "Full" THEN Empty
        ELSE Full
    ELSE IF ~a.negated THEN
        IF b.tag = "Empty" THEN Sparse(a.data, FALSE)
        ELSE IF b.tag = "Full" THEN Full
        ELSE IF ~b.negated THEN Sparse(DirectoryListData_exclusion(a.data, b.data), FALSE)
        ELSE Sparse(DirectoryListData_intersection(a.data, b.data), FALSE)
    ELSE
        IF b.tag = "Empty" THEN Sparse(a.data, TRUE)
        ELSE IF b.tag = "Full" THEN Full
        ELSE IF ~b.negated THEN Sparse(DirectoryListData_union(a.data, b.data), TRUE)
        ELSE Sparse(DirectoryListData_exclusion(b.data, a.data), FALSE)

\* DirectoryList::exclusion
DirectoryList_exclusion(a, b) ==
    IF a.tag = "Empty" THEN Empty
    ELSE IF a.tag = "Full" THEN
        IF b.tag = "Empty" THEN Full
        ELSE IF b.tag = "Full" THEN Empty
        ELSE IF ~b.negated THEN Sparse(b.data, TRUE)
        ELSE Sparse(b.data, FALSE)
    ELSE IF ~a.negated THEN
        IF b.tag = "Empty" THEN Sparse(a.data, FALSE)
        ELSE IF b.tag = "Full" THEN Full
        ELSE IF ~b.negated THEN Sparse(DirectoryListData_exclusion(a.data, b.data), FALSE)
        ELSE Sparse(DirectoryListData_intersection(a.data, b.data), FALSE)
    ELSE
        IF b.tag = "Empty" THEN Sparse(a.data, TRUE)
        ELSE IF b.tag = "Full" THEN Full
        ELSE IF ~b.negated THEN Sparse(DirectoryListData_union(a.data, b.data), TRUE)
        ELSE Sparse(DirectoryListData_exclusion(b.data, a.data), FALSE)

----------------------------------------------------------------------------
(* Inputs of the method-call specifications *)

\* the ascending sequence of the DocIds of set S
RECURSIVE SortedSeq(_)
SortedSeq(S) ==
    IF S = {} THEN << >>
    ELSE LET m == CHOOSE x \in S : \A y \in S : x <= y
         IN << m >> \o SortedSeq(S \ {m})

\* the blob of a sorted-unique posting list
Encode(S) == write_all(<< >>, SortedSeq(S))

\* all sorted-unique posting lists over the universe, as stored blobs
PostingLists == { FromRDB(Encode(S)) : S \in SUBSET Universe }
NonEmptyPostingLists == { FromRDB(Encode(S)) : S \in (SUBSET Universe) \ {{}} }

\* the DirectoryList values in canonical form: no Sparse of an empty list
DirectoryLists ==
    {Empty, Full} \cup { Sparse(d, n) : d \in NonEmptyPostingLists, n \in BOOLEAN }

\* the set of DocIds a sequence holds
Range(s) == { s[i] : i \in 1 .. Len(s) }

StrictlyIncreasing(s) == \A i \in 1 .. Len(s) - 1 : s[i] < s[i + 1]

\* the set a DirectoryList denotes within universe U
Denotes(dl, U) ==
    IF dl.tag = "Empty" THEN {}
    ELSE IF dl.tag = "Full" THEN U
    ELSE IF dl.negated THEN U \ Range(iter(dl.data))
    ELSE Range(iter(dl.data))

----------------------------------------------------------------------------
(* Queries *)

\* the store's term dictionary (term bytes -> TermRef) and the schema's
\* fields (name -> FieldRef); "bird" is in no dictionary, "body" in no schema
term_dictionary == [t \in {"cat", "dog"} |-> IF t = "cat" THEN 0 ELSE 1]
schema_fields == [f \in {"title"} |-> 0]

MatchAll(score) == [type |-> "MatchAll", score |-> score]
MatchNone == [type |-> "MatchNone"]
MatchTerm(field, term) ==
    [type |-> "MatchTerm", field |-> field, term |-> term, scorer |-> "default"]
Combinator(type, queries) == [type |-> type, queries |-> queries]
Filter(q, f) == [type |-> "Filter", query |-> q, filter |-> f]
Exclude(q, x) == [type |-> "Exclude", query |-> q, exclude |-> x]

CombinatorTypes == {"Conjunction", "Disjunction", "NDisjunction", "DisjunctionMax"}

LeafQueries ==
    {MatchAll(1), MatchNone}
    \cup { MatchTerm("title", t) : t \in {"cat", "dog", "bird"} }
    \cup { MatchTerm("body", "cat") }

\* QueriesOfSize(n): the query trees of exactly n nodes;
\* ForestsOfSize(n): the sequences of query trees of n nodes in all
RECURSIVE QueriesOfSize(_), ForestsOfSize(_)
QueriesOfSize(n) ==
    LET children == ForestsOfSize(n - 1)
        pairs == { f \in children : Len(f) = 2 }
    IN  (IF n = 1 THEN LeafQueries ELSE {})
        \cup { Combinator(c, f) : c \in CombinatorTypes, f \in children }
        \cup { Filter(f[1], f[2]) : f \in pairs }
        \cup { Exclude(f[1], f[2]) : f \in pairs }

ForestsOfSize(n) ==
    IF n = 0 THEN { << >> }
    ELSE UNION { { << q >> \o f : q \in QueriesOfSize(k), f \in ForestsOfSize(n - k) }
                 : k \in 1 .. n }

Queries == UNION { QueriesOfSize(n) : n \in 1 .. MaxNodes }

----------------------------------------------------------------------------
(* Planner *)

\* SearchPlan::new
SearchPlan_new == [boolean_query |-> << >>, score_function |-> << >>]

OpZero == [op |-> "Zero"]
OpOne == [op |-> "One"]
OpLoad(field_ref, term_ref) == [op |-> "Load", field_ref |-> field_ref, term_ref |-> term_ref]
OpAnd == [op |-> "And"]
OpOr == [op |-> "Or"]
OpAndNot == [op |-> "AndNot"]

Literal(x) == [op |-> "Literal", value |-> x]
TermScore(field_ref, term_ref, scorer) ==
    [op |-> "TermScore", field_ref |-> field_ref, term_ref |-> term_ref, scorer |-> scorer]
CompoundScorer(n, scorer) == [op |-> "CompoundScorer", n |-> n, scorer |-> scorer]

push_boolean(p, op) == [p EXCEPT !.boolean_query = Append(@, op)]
push_score(p, op) == [p EXCEPT !.score_function = Append(@, op)]

RECURSIVE plan_query(_, _)

\* the for loop of plan_query_combinator over queries[i ..]
RECURSIVE plan_rest(_, _, _, _)
plan_rest(p, queries, i, join_op) ==
    IF i > Len(queries) THEN p
    ELSE plan_rest(push_boolean(plan_query(p, queries[i]), join_op), queries, i + 1, join_op)

\* a slip of the combinator: a joiner after every child, the first included
plan_query_combinator_joinall(p, queries, join_op, scorer) ==
    LET planned ==
            IF Len(queries) = 0 THEN push_boolean(p, OpZero)
            ELSE IF Len(queries) = 1 THEN plan_query(p, queries[1])
            ELSE plan_rest(p, queries, 1, join_op)
    IN  push_score(planned, CompoundScorer(Len(queries), scorer))

\* RocksDBIndexReader::plan_query_combinator
plan_query_combinator(p, queries, join_op, scorer) ==
    LET planned ==
            IF Len(queries) = 0 THEN push_boolean(p, OpZero)
            ELSE IF Len(queries) = 1 THEN plan_query(p, queries[1])
            ELSE plan_rest(plan_query(p, queries[1]), queries, 2, join_op)
    IN  push_score(planned, CompoundScorer(Len(queries), scorer))

\* a slip of plan_query: a field the schema does not know is looked up as
\* FieldRef 0 and its posting list loaded
plan_query_fieldmiss_loads(p, q) ==
    CASE q.type = "MatchAll" ->
            push_score(push_boolean(p, OpOne), Literal(q.score))
      [] q.type = "MatchNone" ->
            push_score(push_boolean(p, OpZero), Literal(0))
      [] q.type = "MatchTerm" ->
            IF q.term \notin DOMAIN term_dictionary THEN push_boolean(p, OpZero)
            ELSE LET term_ref == term_dictionary[q.term]
                     field_ref == IF q.field \in DOMAIN schema_fields
                                  THEN schema_fields[q.field] ELSE 0
                 IN  push_score(push_boolean(p, OpLoad(field_ref, term_ref)),
                                TermScore(field_ref, term_ref, q.scorer))
      [] q.type = "Conjunction" -> plan_query_combinator(p, q.queries, OpAnd, "Avg")
      [] q.type = "Disjunction" -> plan_query_combinator(p, q.queries, OpOr, "Avg")
      [] q.type = "NDisjunction" -> plan_query_combinator(p, q.queries, OpOr, "Avg")
      [] q.type = "DisjunctionMax" -> plan_query_combinator(p, q.queries, OpOr, "Max")
      [] q.type = "Filter" ->
            push_boolean(plan_query(plan_query(p, q.query), q.filter), OpAnd)
      [] q.type = "Exclude" ->
            push_boolean(plan_query(plan_query(p, q.query), q.exclude), OpAndNot)

\* RocksDBIndexReader::plan_query
plan_query(p, q) ==
    CASE q.type = "MatchAll" ->
            push_score(push_boolean(p, OpOne), Literal(q.score))
      [] q.type = "MatchNone" ->
            push_score(push_boolean(p, OpZero), Literal(0))
      [] q.type = "MatchTerm" ->
            IF q.term \notin DOMAIN term_dictionary THEN push_boolean(p, OpZero)
            ELSE IF q.field \notin DOMAIN schema_fields THEN push_boolean(p, OpZero)
            ELSE LET term_ref == term_dictionary[q.term]
                     field_ref == schema_fields[q.field]
                 IN  push_score(push_boolean(p, OpLoad(field_ref, term_ref)),
                                TermScore(field_ref, term_ref, q.scorer))
      [] q.type = "Conjunction" -> plan_query_combinator(p, q.queries, OpAnd, "Avg")
      [] q.type = "Disjunction" -> plan_query_combinator(p, q.queries, OpOr, "Avg")
      [] q.type = "NDisjunction" -> plan_query_combinator(p, q.queries, OpOr, "Avg")
      [] q.type = "DisjunctionMax" -> plan_query_combinator(p, q.queries, OpOr, "Max")
      [] q.type = "Filter" ->
            push_boolean(plan_query(plan_query(p, q.query), q.filter), OpAnd)
      [] q.type = "Exclude" ->
            push_boolean(plan_query(plan_query(p, q.query), q.exclude), OpAndNot)

----------------------------------------------------------------------------
(* RocksDBIndexReader::search *)

\* the posting-list keys of the segment: KeyBuilder::chunk_dir_list(field, term)
Keys == { << schema_fields[f], term_dictionary[t] >> :
            f \in DOMAIN schema_fields, t \in DOMAIN term_dictionary }

Unread == [state |-> "Unread"]
ReadNone == [state |-> "None"]
ReadSome(d) == [state |-> "Some", data |-> d]

\* what snapshot.get(key) may answer with Ok: the snapshot is immutable, so a
\* key read before answers as it did; a key not read yet holds any non-empty
\* sorted-unique posting list of the segment, or nothing
Answers(key) ==
    IF snapshot[key] = Unread
    THEN {ReadNone} \cup { ReadSome(d) : d \in NonEmptyPostingLists }
    ELSE {snapshot[key]}

NoQuery == [type |-> "none"]
NoValue == [tag |-> "none"]

CallIdle == self = NoValue /\ other = NoValue /\ called = "none" /\ result = NoValue

NoBuilder == [current_doc |-> 0]
BuilderOff ==
    /\ builder = NoBuilder
    /\ calls = << >>
    /\ skipped = 0
    /\ overflow_checks = FALSE
    /\ saturating_casts = FALSE
    /\ panicked = FALSE

Init ==
    /\ pc = "idle"
    /\ query \in Queries
    /\ plan = SearchPlan_new
    /\ ip = 1
    /\ stack = << >>
    /\ snapshot = [k \in Keys |-> Unread]
    /\ read_errors = 0
    /\ collected = {}
    /\ CallIdle
    /\ BuilderOff

\* let mut plan = SearchPlan::new(); self.plan_query(&mut plan, query);
Plan ==
    /\ pc = "idle"
    /\ plan' = plan_query(SearchPlan_new, query)
    /\ pc' = "exec"
    /\ UNCHANGED <<query, ip, stack, snapshot, read_errors, collected>>
    /\ UNCHANGED <<callVars, builderVars>>

AtOp(name) ==
    /\ pc = "exec"
    /\ ip <= Len(plan.boolean_query)
    /\ plan.boolean_query[ip].op = name

Step(new_stack) ==
    /\ stack' = new_stack
    /\ ip' = ip + 1
    /\ UNCHANGED <<pc, query, plan, collected>>
    /\ UNCHANGED <<callVars, builderVars>>

\* BooleanQueryOp::Zero
ExecZero ==
    /\ AtOp("Zero")
    /\ Step(Append(stack, Empty))
    /\ UNCHANGED <<snapshot, read_errors>>

\* BooleanQueryOp::One
ExecOne ==
    /\ AtOp("One")
    /\ Step(Append(stack, Full))
    /\ UNCHANGED <<snapshot, read_errors>>

LoadKey == << plan.boolean_query[ip].field_ref, plan.boolean_query[ip].term_ref >>

\* BooleanQueryOp::Load, Ok(Some(directory_list))
ExecLoadSome ==
    /\ AtOp("Load")
    /\ \E ans \in Answers(LoadKey) :
        /\ ans.state = "Some"
        /\ snapshot' = [snapshot EXCEPT ![LoadKey] = ans]
        /\ Step(Append(stack, Sparse(ans.data, FALSE)))
    /\ UNCHANGED read_errors

\* BooleanQueryOp::Load, Ok(None)
ExecLoadNone ==
    /\ AtOp("Load")
    /\ ReadNone \in Answers(LoadKey)
    /\ snapshot' = [snapshot EXCEPT ![LoadKey] = ReadNone]
    /\ Step(Append(stack, Empty))
    /\ UNCHANGED read_errors

\* BooleanQueryOp::Load, Err(e) => {}
ExecLoadErr ==
    /\ AtOp("Load")
    /\ read_errors' = read_errors + 1
    /\ Step(stack)
    /\ UNCHANGED snapshot

\* the stack after popping b, then a, and pushing v
Replace2(v) == Append(SubSeq(stack, 1, Len(stack) - 2), v)
TopA == stack[Len(stack) - 1]
TopB == stack[Len(stack)]

\* BooleanQueryOp::And
ExecAnd ==
    /\ AtOp("And")
    /\ Len(stack) >= 2
    /\ Step(Replace2(DirectoryList_intersection(TopA, TopB)))
    /\ UNCHANGED <<snapshot, read_errors>>

\* BooleanQueryOp::Or
ExecOr ==
    /\ AtOp("Or")
    /\ Len(stack) >= 2
    /\ Step(Replace2(DirectoryList_union(TopA, TopB)))
    /\ UNCHANGED <<snapshot, read_errors>>

\* BooleanQueryOp::AndNot
ExecAndNot ==
    /\ AtOp("AndNot")
    /\ Len(stack) >= 2
    /\ Step(Replace2(DirectoryList_exclusion(TopA, TopB)))
    /\ UNCHANGED <<snapshot, read_errors>>

\* stack.pop().expect("stack underflow") panics in And, Or or AndNot
Underflow ==
    /\ pc = "exec"
    /\ ip <= Len(plan.boolean_query)
    /\ plan.boolean_query[ip].op \in {"And", "Or", "AndNot"}
    /\ Len(stack) < 2
    /\ pc' = "panic"
    /\ stack' = << >>
    /\ UNCHANGED <<query, plan, ip, snapshot, read_errors, collected>>
    /\ UNCHANGED <<callVars, builderVars>>

\* the for loop is over: search returns (); the collector parameter is never
\* used and the score program is never run
Return ==
    /\ pc = "exec"
    /\ ip > Len(plan.boolean_query)
    /\ pc' = "done"
    /\ UNCHANGED <<query, plan, ip, stack, snapshot, read_errors, collected>>
    /\ UNCHANGED <<callVars, builderVars>>

Next ==
    \/ Plan
    \/ ExecZero
    \/ ExecOne
    \/ ExecLoadSome
    \/ ExecLoadNone
    \/ ExecLoadErr
    \/ ExecAnd
    \/ ExecOr
    \/ ExecAndNot
    \/ Underflow
    \/ Return

Spec == Init /\ [][Next]_vars

----------------------------------------------------------------------------
(* One call of a DirectoryListData combinator *)

SearchOff ==
    /\ pc = "off"
    /\ query = NoQuery
    /\ plan = SearchPlan_new
    /\ ip = 1
    /\ stack = << >>
    /\ snapshot = [k \in Keys |-> Unread]
    /\ read_errors = 0
    /\ collected = {}

InitCodec ==
    /\ SearchOff
    /\ self \in PostingLists
    /\ other \in PostingLists
    /\ called = "none"
    /\ result = NoValue
    /\ BuilderOff

Call(name, value) ==
    /\ called = "none"
    /\ called' = name
    /\ result' = value
    /\ UNCHANGED <<self, other>>
    /\ UNCHANGED <<searchVars, builderVars>>

CodecUnion == Call("union", DirectoryListData_union(self, other))
CodecIntersection == Call("intersection", DirectoryListData_intersection(self, other))
CodecExclusion == Call("exclusion", DirectoryListData_exclusion(self, other))

NextCodec ==
    \/ CodecUnion
    \/ CodecIntersection
    \/ CodecExclusion

SpecCodec == InitCodec /\ [][NextCodec]_vars

----------------------------------------------------------------------------
(* One call of a DirectoryList operation *)

InitAlgebra ==
    /\ SearchOff
    /\ self \in DirectoryLists
    /\ other \in DirectoryLists
    /\ called = "none"
    /\ result = NoValue
    /\ BuilderOff

AlgebraIntersection == Call("intersection", DirectoryList_intersection(self, other))
AlgebraUnion == Call("union", DirectoryList_union(self, other))
AlgebraExclusion == Call("exclusion", DirectoryList_exclusion(self, other))

NextAlgebra ==
    \/ AlgebraIntersection
    \/ AlgebraUnion
    \/ AlgebraExclusion

SpecAlgebra == InitAlgebra /\ [][NextAlgebra]_vars

-----------------------------------------------------------------------------
(***************************************************************************)
(* SegmentBuilder (kite_rocksdb/src/segment_builder.rs).                   *)
(* The builder is one record with the struct's fields.  The hash maps are  *)
(* functions on the keys present; the RoaringBitmap of a (field, term) is  *)
(* the set of its bits.  A Document gives, for each indexed field, the     *)
(* number of positions of each term (add_document reads the position list  *)
(* only through len()), and for each stored field its bytes.               *)
(***************************************************************************)
MaxCalls == 3

U16_MAX == 65535

Put(map, key, value) ==
    [k \in DOMAIN map \cup {key} |-> IF k = key THEN value ELSE map[k]]

Increment(map, key, amount) ==
    Put(map, key, (IF key \in DOMAIN map THEN map[key] ELSE 0) + amount)

total_docs == << "total_docs" >>
segment_stat_term_doc_frequency_stat_name(field_ord, term_ord) ==
    << "term_doc_frequency", field_ord, term_ord >>
segment_stat_total_field_docs_stat_name(field_ord) == << "total_field_docs", field_ord >>
segment_stat_total_field_tokens_stat_name(field_ord) == << "total_field_tokens", field_ord >>

RECURSIVE to_string(_)
to_string(n) ==
    IF n < 10 THEN << 48 + n >> ELSE to_string(n \div 10) \o << 48 + (n % 10) >>

RECURSIVE write_le(_, _)
write_le(value, width) ==
    IF width = 0 THEN << >> ELSE << value % 256 >> \o write_le(value \div 256, width - 1)

write_i64(value) == write_le(value, 8)

tf(term_ord) == << 116, 102 >> \o to_string(term_ord)
len == << 108, 101, 110 >>
val == << 118, 97, 108 >>

to_bytes(value) == value

SegmentBuilder_new ==
    [ current_doc |-> 0,
      term_dictionary |-> << >>,
      current_term_ref |-> 0,
      term_directories |-> << >>,
      statistics |-> << >>,
      stored_field_values |-> << >> ]

\* A TermRef handed out afresh at every lookup, known term or not.
get_term_ref_always_new(b, term) ==
    [ builder |-> [ b EXCEPT !.current_term_ref = @ + 1,
                             !.term_dictionary = Put(@, term, b.current_term_ref) ],
      term_ref |-> b.current_term_ref ]

\* The builder after the lookup, and the TermRef returned.
get_term_ref(b, term) ==
    IF term \in DOMAIN b.term_dictionary
    THEN [ builder |-> b, term_ref |-> b.term_dictionary[term] ]
    ELSE [ builder |-> [ b EXCEPT !.current_term_ref = @ + 1,
                                  !.term_dictionary = Put(@, term, b.current_term_ref) ],
           term_ref |-> b.current_term_ref ]

\* The body of the loop over the terms of one field.
index_term(b, field, doc_id, term, frequency) ==
    LET got == get_term_ref(b, term)
        term_ref == got.term_ref
        key == << field, term_ref >>
        bitmap == IF key \in DOMAIN got.builder.term_directories
                  THEN got.builder.term_directories[key] ELSE {}
        b1 == [ got.builder EXCEPT !.term_directories = Put(@, key, bitmap \cup {doc_id}) ]
        b2 == IF frequency # 1
              THEN [ b1 EXCEPT !.stored_field_values =
                        Put(@, << field, doc_id, tf(term_ref) >>, write_i64(frequency)) ]
              ELSE b1
    IN  [ b2 EXCEPT !.statistics =
            Increment(@, segment_stat_term_doc_frequency_stat_name(field, term_ref), 1) ]

RECURSIVE index_terms(_, _, _, _, _)
index_terms(b, field, doc_id, tokens, order) ==
    IF order = << >> THEN b
    ELSE index_terms(index_term(b, field, doc_id, Head(order), tokens[Head(order)]),
                     field, doc_id, tokens, Tail(order))

RECURSIVE token_count(_, _)
token_count(tokens, order) ==
    IF order = << >> THEN 0 ELSE tokens[Head(order)] + token_count(tokens, Tail(order))

\* The largest k in low .. high - 1 with k * k <= x, by bisection.
RECURSIVE sqrt_between(_, _, _)
sqrt_between(x, low, high) ==
    IF high - low <= 1 THEN low
    ELSE LET mid == (low + high) \div 2
         IN  IF mid * mid <= x THEN sqrt_between(x, mid, high) ELSE sqrt_between(x, low, mid)

\* floor(3 * sqrt(n)).
sqrt3(n) == sqrt_between(9 * n, 0, 9 * n + 1)

\* The byte the rounding quantisation would give.
field_length_rounded(field_token_count, saturating) ==
    LET floor == sqrt3(field_token_count)
        length == floor - 3 +
            (IF (2 * floor + 1) * (2 * floor + 1) <= 36 * field_token_count THEN 1 ELSE 0)
    IN  IF length > 255 THEN 255
        ELSE IF length >= 0 THEN length
        ELSE IF saturating THEN 0 ELSE length % 256

\* ((n as f32).sqrt() - 1.0) * 3.0, capped at 255.0, then cast to u8.  The
\* cast drops the fraction; of a negative value it gives 0 in a build with
\* saturating casts and the low byte of the integer otherwise.
field_length(field_token_count, saturating) ==
    LET length == sqrt3(field_token_count) - 3
    IN  IF length > 255 THEN 255
        ELSE IF length >= 0 THEN length
        ELSE IF saturating THEN 0 ELSE length % 256

\* The body of the loop over the indexed fields.
index_field(b, field, doc_id, tokens, order, saturating) ==
    LET b1 == index_terms(b, field, doc_id, tokens, order)
        field_token_count == token_count(tokens, order)
        length == field_length(field_token_count, saturating)
        b2 == IF length # 0
              THEN [ b1 EXCEPT !.stored_field_values = Put(@, << field, doc_id, len >>, << length >>) ]
              ELSE b1
        b3 == [ b2 EXCEPT !.statistics =
                  Increment(@, segment_stat_total_field_docs_stat_name(field), 1) ]
    IN  [ b3 EXCEPT !.statistics =
            Increment(@, segment_stat_total_field_tokens_stat_name(field), field_token_count) ]

Among(order, keys) == SelectSeq(order, LAMBDA k : k \in keys)

RECURSIVE index_fields(_, _, _, _, _, _)
index_fields(b, doc_id, indexed_fields, field_order, term_order, saturating) ==
    IF field_order = << >> THEN b
    ELSE LET field == Head(field_order)
             tokens == indexed_fields[field]
         IN  index_fields(index_field(b, field, doc_id, tokens,
                                      Among(term_order, DOMAIN tokens), saturating),
                          doc_id, indexed_fields, Tail(field_order), term_order, saturating)

RECURSIVE store_fields(_, _, _, _)
store_fields(b, doc_id, stored_fields, field_order) ==
    IF field_order = << >> THEN b
    ELSE store_fields([ b EXCEPT !.stored_field_values =
                          Put(@, << Head(field_order), doc_id, val >>,
                              to_bytes(stored_fields[Head(field_order)])) ],
                      doc_id, stored_fields, Tail(field_order))

Ok(value) == [ tag |-> "Ok", value |-> value ]
SegmentFull == [ tag |-> "SegmentFull", value |-> 0 ]
Overflow == [ tag |-> "panic", value |-> 0 ]

\* total_docs taken from the DocId counter instead of counted.
increment_total_docs_from_counter(b) ==
    [ b EXCEPT !.statistics = Put(@, total_docs, b.current_doc) ]

increment_total_docs(b) == [ b EXCEPT !.statistics = Increment(@, total_docs, 1) ]

\* One call: the builder it leaves and what it returns.  field_order and
\* term_order are the orders in which the hash maps of the document iterate.
add_document(b, doc, field_order, term_order, checks, saturating) ==
    LET doc_id == b.current_doc
        b0 == [ b EXCEPT !.current_doc = (doc_id + 1) % (U16_MAX + 1) ]
    IN  IF doc_id + 1 > U16_MAX /\ checks
        THEN [ builder |-> b, result |-> Overflow ]
        ELSE IF b0.current_doc + 1 > U16_MAX
        THEN [ builder |-> b0, result |-> SegmentFull ]
        ELSE LET b1 == index_fields(b0, doc_id, doc.indexed_fields,
                                    Among(field_order, DOMAIN doc.indexed_fields),
                                    term_order, saturating)
                 b2 == store_fields(b1, doc_id, doc.stored_fields,
                                    Among(field_order, DOMAIN doc.stored_fields))
             IN  [ builder |-> increment_total_docs(b2), result |-> Ok(doc_id) ]

\* The builder after count further calls with a document that has no
\* fields, none of which reaches the end of the DocId range.
add_empty_documents(b, count) ==
    [ b EXCEPT !.current_doc = @ + count,
               !.statistics = Increment(@, total_docs, count) ]

None == [ some |-> FALSE, value |-> << >> ]
Some(value) == [ some |-> TRUE, value |-> value ]

load_statistic(b, stat_name) ==
    IF stat_name \in DOMAIN b.statistics THEN Some(b.statistics[stat_name]) ELSE None

load_stored_field_value_raw(b, doc_ord, field_ref, value_type) ==
    LET key == << field_ref, doc_ord, value_type >>
    IN  IF key \in DOMAIN b.stored_field_values THEN Some(b.stored_field_values[key]) ELSE None

load_term_directory(b, field_ref, term_ref) ==
    LET key == << field_ref, term_ref >>
    IN  IF key \in DOMAIN b.term_directories THEN Some(b.term_directories[key]) ELSE None

FieldRefs == {0, 1}
Terms == {"cat", "dog"}

Document(indexed_fields, stored_fields) ==
    [ indexed_fields |-> indexed_fields, stored_fields |-> stored_fields ]

EmptyDocument == Document(<< >>, << >>)

Documents ==
    { EmptyDocument,
      Document(0 :> ("cat" :> 1), << >>),
      Document(0 :> ("cat" :> 4 @@ "dog" :> 1), << >>),
      Document(0 :> ("dog" :> 8000) @@ 1 :> ("cat" :> 1), 0 :> << 7 >>),
      Document(0 :> << >>, << >>) }

Orders(S) == { order \in [1..Cardinality(S) -> S] : Range(order) = S }

\* The orders in which the maps of a document can iterate.
FieldOrders(doc) == Orders(DOMAIN doc.indexed_fields \cup DOMAIN doc.stored_fields)
TermOrders(doc) ==
    Orders(UNION { DOMAIN doc.indexed_fields[field] : field \in DOMAIN doc.indexed_fields })

Called(doc, before, outcome) == [ doc |-> doc, before |-> before, result |-> outcome ]

\* A builder that has taken one document and then empty documents until
\* current_doc is the last value of the DocId range but one.
InitWarm ==
    \E first \in Documents :
      \E field_order \in FieldOrders(first), term_order \in TermOrders(first) :
        LET call == add_document(SegmentBuilder_new, first, field_order, term_order,
                                 overflow_checks, saturating_casts)
        IN  /\ skipped = U16_MAX - 2
            /\ builder = add_empty_documents(call.builder, skipped)
            /\ calls = << Called(first, 0, call.result) >>

InitFresh ==
    /\ builder = SegmentBuilder_new
    /\ calls = << >>
    /\ skipped = 0

InitBuilder ==
    /\ SearchOff
    /\ CallIdle
    /\ overflow_checks \in BOOLEAN
    /\ saturating_casts \in BOOLEAN
    /\ panicked = FALSE
    /\ InitFresh \/ InitWarm

CallsMade == Len(calls) - (IF skipped > 0 THEN 1 ELSE 0)

AddDocumentCall(tag) ==
    /\ ~panicked
    /\ CallsMade < MaxCalls
    /\ \E doc \in Documents :
      \E field_order \in FieldOrders(doc), term_order \in TermOrders(doc) :
        LET call == add_document(builder, doc, field_order, term_order,
                                 overflow_checks, saturating_casts)
        IN  /\ call.result.tag = tag
            /\ builder' = call.builder
            /\ IF tag = "panic"
               THEN panicked' = TRUE /\ UNCHANGED calls
               ELSE calls' = Append(calls, Called(doc, builder.current_doc, call.result))
                    /\ UNCHANGED panicked
    /\ UNCHANGED <<skipped, overflow_checks, saturating_casts>>
    /\ UNCHANGED <<searchVars, callVars>>

AddDocument == AddDocumentCall("Ok")
AddDocumentSegmentFull == AddDocumentCall("SegmentFull")
AddDocumentPanic == AddDocumentCall("panic")

NextBuilder == AddDocument \/ AddDocumentSegmentFull \/ AddDocumentPanic

SpecBuilder == InitBuilder /\ [][NextBuilder]_vars

----------------------------------------------------------------------------
(* Properties *)

Resolved(q) == q.term \in DOMAIN term_dictionary /\ q.field \in DOMAIN schema_fields
KeyOf(q) == << schema_fields[q.field], term_dictionary[q.term] >>

\* the DocIds the snapshot holds for a MatchTerm query: those of the posting
\* list stored for (field, term); none when the term or the field is unknown
\* or no list is stored
TermDocs(q) ==
    IF Resolved(q) /\ snapshot[KeyOf(q)].state = "Some"
    THEN Range(iter(snapshot[KeyOf(q)].data))
    ELSE {}

\* the set-theoretic meaning of a query; a combinator without children
\* matches nothing
RECURSIVE Meaning(_)
MeaningAll(qs) ==
    IF Len(qs) = 0 THEN {}
    ELSE { d \in Universe : \A i \in 1 .. Len(qs) : d \in Meaning(qs[i]) }
MeaningAny(qs) == { d \in Universe : \E i \in 1 .. Len(qs) : d \in Meaning(qs[i]) }
Meaning(q) ==
    CASE q.type = "MatchAll" -> Universe
      [] q.type = "MatchNone" -> {}
      [] q.type = "MatchTerm" -> TermDocs(q)
      [] q.type = "Conjunction" -> MeaningAll(q.queries)
      [] q.type \in {"Disjunction", "NDisjunction", "DisjunctionMax"} -> MeaningAny(q.queries)
      [] q.type = "Filter" -> Meaning(q.query) \cap Meaning(q.filter)
      [] q.type = "Exclude" -> Meaning(q.query) \ Meaning(q.exclude)

\* queries built from MatchAll, MatchNone, MatchTerm, Conjunction,
\* Disjunction, Filter and Exclude only
RECURSIVE IsBasic(_)
IsBasic(q) ==
    CASE q.type \in {"MatchAll", "MatchNone", "MatchTerm"} -> TRUE
      [] q.type \in {"Conjunction", "Disjunction"} ->
            \A i \in 1 .. Len(q.queries) : IsBasic(q.queries[i])
      [] q.type = "Filter" -> IsBasic(q.query) /\ IsBasic(q.filter)
      [] q.type = "Exclude" -> IsBasic(q.query) /\ IsBasic(q.exclude)
      [] OTHER -> FALSE

\* C1: when search has returned and every snapshot read succeeded, the one
\* DirectoryList left on the stack denotes, within the segment's DocIds,
\* the set-theoretic meaning of the query (for queries built from MatchAll,
\* MatchNone, MatchTerm, Conjunction, Disjunction, Filter and Exclude).
C1_SearchDenotesQuery ==
    (pc = "done" /\ read_errors = 0 /\ IsBasic(query))
        => /\ Len(stack) = 1
           /\ Denotes(stack[1], Universe) = Meaning(query)

\* the universes that contain the data of both operands: the segment's
\* DocIds with or without one more DocId, less what the operands do not name
OperandDocs(dl) == IF dl.tag = "Sparse" THEN Range(iter(dl.data)) ELSE {}
Universes ==
    { U \in SUBSET (Universe \cup {DocIdOf(NumDocs)}) :
        OperandDocs(self) \cup OperandDocs(other) \subseteq U }

SetOp(name, A, B) ==
    CASE name = "intersection" -> A \cap B
      [] name = "union" -> A \cup B
      [] name = "exclusion" -> A \ B

\* C2: the result of DirectoryList::intersection, union and exclusion
\* denotes, in every universe containing the operands' data, the
\* intersection, union or difference of the sets the operands denote.
C2_AlgebraDenotesSetOperation ==
    called # "none" =>
        \A U \in Universes :
            Denotes(result, U) = SetOp(called, Denotes(self, U), Denotes(other, U))

\* C3: no value on the executor's stack is a Sparse whose data is the
\* empty list (the loaded posting lists being non-empty).
C3_NoEmptySparseOnStack ==
    \A i \in 1 .. Len(stack) :
        stack[i].tag = "Sparse" => iter(stack[i].data) # << >>

FullMinusSparse ==
    /\ called = "exclusion"
    /\ self = Full
    /\ other.tag = "Sparse"
    /\ iter(other.data) # << >>

\* C4 (as stated): DirectoryList::exclusion of Full and a Sparse value with
\* non-empty data returns Full.
C4_FullMinusSparseIsFull == FullMinusSparse => result = Full

\* C4 (amended): DirectoryList::exclusion of Full and Sparse(b, n) with
\* non-empty data returns Sparse(b, not n): the same data, the flag flipped.
C4_FullMinusSparseFlipsNegation ==
    FullMinusSparse => result = Sparse(other.data, ~other.negated)

C4_Witness == FullMinusSparse /\ other.negated /\ result.tag = "Sparse"

\* C5: DirectoryListData::union of sorted-unique lists decodes to the
\* ascending sequence of the set union, a shared DocId emitted once.
C5_UnionIsSortedSetUnion ==
    called = "union" =>
        iter(result) = SortedSeq(Range(iter(self)) \cup Range(iter(other)))

\* C6: DirectoryListData::exclusion of sorted-unique lists A and B decodes
\* to the ascending sequence of the DocIds of A that are not in B.
C6_ExclusionIsSortedSetDifference ==
    called = "exclusion" =>
        iter(result) = SortedSeq(Range(iter(self)) \ Range(iter(other)))

\* B is exhausted before A, an element of A was dropped and the rest of A
\* was drained into the result
C6_Witness ==
    /\ called = "exclusion"
    /\ Len(iter(other)) >= 1
    /\ Len(iter(self)) >= 2
    /\ iter(self)[Len(iter(self))] > iter(other)[Len(iter(other))]
    /\ Range(iter(self)) \cap Range(iter(other)) # {}
    /\ Len(iter(result)) >= 1

\* C7: the data of every Sparse value on the executor's stack, loaded or
\* produced by the codec's union, intersection or exclusion, is strictly
\* increasing (no duplicates).
C7_SparseDataStrictlyIncreasing ==
    \A i \in 1 .. Len(stack) :
        stack[i].tag = "Sparse" => StrictlyIncreasing(iter(stack[i].data))

AtJoin ==
    /\ pc = "exec"
    /\ ip <= Len(plan.boolean_query)
    /\ plan.boolean_query[ip].op \in {"And", "Or", "AndNot"}

\* C8: with every Load pushing one value (no read fails), the boolean
\* program of any query never pops from an empty stack (And, Or and AndNot
\* always find two values) and ends with exactly one value on the stack.
C8_BooleanProgramArity ==
    read_errors = 0 =>
        /\ pc # "panic"
        /\ AtJoin => Len(stack) >= 2
        /\ pc = "done" => Len(stack) = 1

\* search has returned for a combinator of two children, one of them a
\* combinator without children
C8_Witness ==
    /\ pc = "done"
    /\ read_errors = 0
    /\ query.type \in CombinatorTypes
    /\ Len(query.queries) = 2
    /\ query.queries[2].type \in CombinatorTypes

\* the score stack machine: Literal and TermScore push one value,
\* CompoundScorer(n, _) pops n and pushes one; the depth after the program,
\* or -1 when a pop finds the stack empty
RECURSIVE score_depth(_, _, _)
score_depth(prog, i, depth) ==
    IF i > Len(prog) THEN depth
    ELSE IF prog[i].op = "CompoundScorer"
    THEN IF depth < prog[i].n THEN -1
         ELSE score_depth(prog, i + 1, depth - prog[i].n + 1)
    ELSE score_depth(prog, i + 1, depth + 1)

\* C9: the score program of any query, run on an empty stack, never pops
\* from an empty stack and ends with exactly one value.
C9_ScoreProgramArity ==
    pc # "idle" => score_depth(plan.score_function, 1, 0) = 1

\* C10: once a snapshot read has failed during a Load, search neither goes
\* on executing opcodes nor returns normally: the failure is surfaced.
C10_LoadErrorSurfaced ==
    read_errors > 0 => pc \notin {"exec", "done"}

\* C11: for a MatchTerm query whose term is not in the term dictionary or
\* whose field is not in the schema, the boolean program is the single
\* opcode Zero, no snapshot read is made (none answered, none failed), and
\* search returns with Empty alone on the stack, without a panic.
C11_UnresolvedTermPlansZero ==
    (query.type = "MatchTerm" /\ ~Resolved(query)) =>
        /\ pc # "idle" => plan.boolean_query = << OpZero >>
        /\ \A k \in Keys : snapshot[k] = Unread
        /\ read_errors = 0
        /\ pc # "panic"
        /\ pc = "done" => stack = << Empty >>

\* search has returned for a MatchTerm whose field the schema does not know
C11_Witness ==
    /\ pc = "done"
    /\ query.type = "MatchTerm"
    /\ query.field \notin DOMAIN schema_fields
    /\ query.term \in DOMAIN term_dictionary
    /\ stack = << Empty >>

\* C19: when search has returned with a non-empty candidate set, the
\* Collector has been handed a (DocId, score) pair for each candidate DocId
\* of the final DirectoryList and for no other DocId.
C19_CandidatesDelivered ==
    (pc = "done" /\ Len(stack) = 1 /\ Denotes(stack[1], Universe) # {})
        => { p[1] : p \in collected } = Denotes(stack[1], Universe)

\* Table T1: the result listed for an operation, the left operand l and the
\* right operand r; a and b are the data of l and r
T1(name, l, r) ==
    LET a == l.data
        b == r.data
        L == IF l.tag = "Sparse" THEN (IF l.negated THEN "S1" ELSE "S0") ELSE l.tag
        R == IF r.tag = "Sparse" THEN (IF r.negated THEN "S1" ELSE "S0") ELSE r.tag
        and == DirectoryListData_intersection(a, b)
        or == DirectoryListData_union(a, b)
        a_minus_b == DirectoryListData_exclusion(a, b)
        b_minus_a == DirectoryListData_exclusion(b, a)
    IN  CASE name = "intersection" /\ R = "Empty" -> Empty
          [] name = "intersection" /\ R = "Full" ->
                (CASE L = "Empty" -> Empty [] L = "Full" -> Full
                   [] L = "S0" -> Sparse(a, FALSE) [] L = "S1" -> Sparse(a, TRUE))
          [] name = "intersection" /\ R = "S0" ->
                (CASE L = "Empty" -> Empty [] L = "Full" -> Sparse(b, FALSE)
                   [] L = "S0" -> Sparse(and, FALSE) [] L = "S1" -> Sparse(b_minus_a, FALSE))
          [] name = "intersection" /\ R = "S1" ->
                (CASE L = "Empty" -> Empty [] L = "Full" -> Sparse(b, TRUE)
                   [] L = "S0" -> Sparse(a_minus_b, FALSE) [] L = "S1" -> Sparse(or, TRUE))
          [] name = "union" /\ R = "Empty" ->
                (CASE L = "Empty" -> Empty [] L = "Full" -> Full
                   [] L = "S0" -> Sparse(a, FALSE) [] L = "S1" -> Sparse(a, TRUE))
          [] name = "union" /\ R = "Full" -> Full
          [] name = "union" /\ R = "S0" ->
                (CASE L = "Empty" -> Sparse(b, FALSE) [] L = "Full" -> Full
                   [] L = "S0" -> Sparse(or, FALSE) [] L = "S1" -> Sparse(a_minus_b, TRUE))
          [] name = "union" /\ R = "S1" ->
                (CASE L = "Empty" -> Sparse(b, TRUE) [] L = "Full" -> Full
                   [] L = "S0" -> Sparse(b_minus_a, TRUE) [] L = "S1" -> Sparse(and, TRUE))
          [] name = "exclusion" /\ R = "Empty" ->
                (CASE L = "Empty" -> Empty [] L = "Full" -> Full
                   [] L = "S0" -> Sparse(a, FALSE) [] L = "S1" -> Sparse(a, TRUE))
          [] name = "exclusion" /\ R = "Full" ->
                (CASE L = "Empty" -> Empty [] L = "Full" -> Empty
                   [] L = "S0" -> Full [] L = "S1" -> Full)
          [] name = "exclusion" /\ R = "S0" ->
                (CASE L = "Empty" -> Empty [] L = "Full" -> Sparse(b, TRUE)
                   [] L = "S0" -> Sparse(a_minus_b, FALSE) [] L = "S1" -> Sparse(or, TRUE))
          [] name = "exclusion" /\ R = "S1" ->
                (CASE L = "Empty" -> Empty [] L = "Full" -> Sparse(b, FALSE)
                   [] L = "S0" -> Sparse(and, FALSE) [] L = "S1" -> Sparse(b_minus_a, FALSE))

\* C20: in each of the 48 cells of Table T1 the DirectoryList method returns
\* the variant, the negated flag and the codec combination of a and b that
\* the table lists.
C20_MethodsFollowTableT1 ==
    called # "none" => result = T1(called, self, other)

\* the cell Sparse(a, true) \ Full, listed as Full
C20_Witness ==
    /\ called = "exclusion"
    /\ self.tag = "Sparse"
    /\ self.negated
    /\ other = Full
    /\ result = Full

-----------------------------------------------------------------------------
(* Properties of the SegmentBuilder *)

Returned == 1..Len(calls)
OkAt(i) == calls[i].result.tag = "Ok"
FullAt(i) == calls[i].result.tag = "SegmentFull"

\* the number of calls that returned Ok before the i-th recorded call, and
\* in all: the recorded ones and the empty documents after the first
SuccessesBefore(i) ==
    Cardinality({ j \in 1..(i - 1) : OkAt(j) }) + (IF i > 1 THEN skipped ELSE 0)
Successes == Cardinality({ j \in Returned : OkAt(j) }) + skipped

Lists(doc, field, term) ==
    field \in DOMAIN doc.indexed_fields /\ term \in DOMAIN doc.indexed_fields[field]

\* the bits of the posting bitmap of (field, term): none when the term has
\* no TermRef or the pair has no bitmap
Bitmap(field, term) ==
    IF term \in DOMAIN builder.term_dictionary
    THEN LET loaded == load_term_directory(builder, field, builder.term_dictionary[term])
         IN  IF loaded.some THEN loaded.value ELSE {}
    ELSE {}

\* C12: every successful add_document returns the value current_doc had
\* immediately before the call, and the n-th successful call on a fresh
\* builder returns DocId n-1.
C12_ReturnsSuccessiveDocIds ==
    \A i \in Returned :
        OkAt(i) =>
            /\ calls[i].result.value = calls[i].before
            /\ calls[i].result.value = SuccessesBefore(i)

\* C13: the posting bitmap of (field, term) contains DocId d if and only if
\* the document that was assigned d lists the term under the field, and
\* every bit of a bitmap is the DocId of an added document.
C13_BitmapHoldsExactlyTheListingDocs ==
    /\ \A i \in Returned :
          OkAt(i) =>
              \A field \in FieldRefs, term \in Terms :
                  calls[i].result.value \in Bitmap(field, term)
                      <=> Lists(calls[i].doc, field, term)
    /\ \A field \in FieldRefs, term \in Terms :
          \A d \in Bitmap(field, term) :
              \E i \in Returned : OkAt(i) /\ calls[i].result.value = d

\* C14: the total_docs statistic equals the number of calls that returned
\* Ok, whatever calls failed with SegmentFull in between, and is absent only
\* when that number is zero.
C14_TotalDocsCountsSuccesses ==
    load_statistic(builder, total_docs) = (IF Successes = 0 THEN None ELSE Some(Successes))

\* a call returned Ok after an earlier call had failed with SegmentFull
C14_Witness ==
    /\ \E i \in Returned : \E j \in Returned : i < j /\ FullAt(i) /\ OkAt(j)
    /\ load_statistic(builder, total_docs) = Some(Successes)

\* C15: for every (field, TermRef) that has a posting bitmap, the
\* term_doc_frequency statistic equals the number of DocIds in the bitmap.
C15_DocFrequencyIsPopcount ==
    \A key \in DOMAIN builder.term_directories :
        load_statistic(builder, segment_stat_term_doc_frequency_stat_name(key[1], key[2]))
            = Some(Cardinality(builder.term_directories[key]))

\* the 8 little-endian bytes of a position count below 2^16
Int64Bytes(count) == << count % 256, count \div 256, 0, 0, 0, 0, 0, 0 >>

\* C16: for every (field, DocId, term) of an added document, the value of
\* kind tf<o>, o the ordinal of the term's TermRef, exists if and only if the
\* term's number of positions is not 1, and is then that number as 8
\* little-endian bytes.
C16_TermFrequencyStoredUnlessOne ==
    \A i \in Returned :
        OkAt(i) =>
            \A field \in FieldRefs, term \in Terms :
                Lists(calls[i].doc, field, term) =>
                    LET frequency == calls[i].doc.indexed_fields[field][term]
                        stored == load_stored_field_value_raw(builder, calls[i].result.value,
                                      field, tf(builder.term_dictionary[term]))
                    IN  /\ stored.some <=> frequency # 1
                        /\ stored.some => stored.value = Int64Bytes(frequency)

\* C17: add_document fails with SegmentFull exactly when the DocId it would
\* allocate is 65535 or more, so 65535 calls succeed before the first failure.
C17_SegmentFullOnlyBeyondRange ==
    \A i \in Returned :
        /\ FullAt(i) <=> calls[i].before >= U16_MAX
        /\ FullAt(i) => SuccessesBefore(i) >= U16_MAX

TokenCount(doc, field) ==
    LET tokens == doc.indexed_fields[field]
        RECURSIVE Total(_)
        Total(terms) ==
            IF terms = {} THEN 0
            ELSE LET term == CHOOSE t \in terms : TRUE
                 IN  tokens[term] + Total(terms \ {term})
    IN  Total(DOMAIN tokens)

\* clamp(round((sqrt(n) - 1) * 3), 0, 255): the largest byte m with
\* m - 1/2 <= 3 * sqrt(n) - 3, and 0 when there is none
RoundedByte(n) ==
    LET fits == { m \in 0..255 : (2 * m + 5) * (2 * m + 5) <= 36 * n }
    IN  IF fits = {} THEN 0 ELSE CHOOSE m \in fits : \A k \in fits : k <= m

\* min(255, floor((sqrt(n) - 1) * 3)) for n >= 1: the largest byte m with
\* m <= 3 * sqrt(n) - 3
TruncatedByte(n) ==
    LET fits == { m \in 0..255 : (m + 3) * (m + 3) <= 9 * n }
    IN  IF fits = {} THEN 0 ELSE CHOOSE m \in fits : \A k \in fits : k <= m

\* C18 as stated: for every indexed field of an added document with n
\* tokens, the len value of (field, DocId) is the byte
\* clamp(round((sqrt(n) - 1) * 3), 0, 255), and is absent exactly when that
\* byte is 0.
C18_LenByteRounds ==
    \A i \in Returned :
        OkAt(i) =>
            \A field \in DOMAIN calls[i].doc.indexed_fields :
                LET byte == RoundedByte(TokenCount(calls[i].doc, field))
                    stored == load_stored_field_value_raw(builder, calls[i].result.value, field, len)
                IN  stored = (IF byte = 0 THEN None ELSE Some(<< byte >>))

\* C18, amended: a successful call stores, for every indexed field of its
\* document with n >= 1 tokens, the byte min(255, floor((sqrt(n) - 1) * 3))
\* as the len value of (field, returned DocId) when that byte is not 0, and
\* leaves the len value of that key as it was when the byte is 0; for n = 0
\* the same holds in a build whose float-to-integer casts saturate.
C18_LenByteTruncates ==
    [][ (Len(calls') = Len(calls) + 1 /\ calls'[Len(calls')].result.tag = "Ok") =>
            LET call == calls'[Len(calls')]
            IN  \A field \in DOMAIN call.doc.indexed_fields :
                    LET n == TokenCount(call.doc, field)
                        byte == TruncatedByte(n)
                        before == load_stored_field_value_raw(builder, call.result.value, field, len)
                        after == load_stored_field_value_raw(builder', call.result.value, field, len)
                    IN  (n >= 1 \/ saturating_casts) =>
                            after = (IF byte = 0 THEN before ELSE Some(<< byte >>))
      ]_vars

\* a field of 5 tokens got the byte 3, and a field of 8000 tokens the byte 255
C18_Witness ==
    \E i \in Returned, j \in Returned :
        /\ OkAt(i) /\ OkAt(j)
        /\ 0 \in DOMAIN calls[i].doc.indexed_fields
        /\ TokenCount(calls[i].doc, 0) = 5
        /\ load_stored_field_value_raw(builder, calls[i].result.value, 0, len) = Some(<< 3 >>)
        /\ 0 \in DOMAIN calls[j].doc.indexed_fields
        /\ TokenCount(calls[j].doc, 0) = 8000
        /\ load_stored_field_value_raw(builder, calls[j].result.value, 0, len) = Some(<< 255 >>)

\* C21: the term dictionary maps distinct terms to distinct TermRefs, the
\* ordinals assigned are exactly 0 .. current_term_ref - 1, and a call
\* keeps the TermRef of every term already known and gives the terms it
\* meets for the first time the next ordinals, advancing current_term_ref
\* by their number only.
C21_TermRefsDenseAndStable ==
    /\ [](LET dictionary == builder.term_dictionary
          IN  /\ \A t \in DOMAIN dictionary, u \in DOMAIN dictionary :
                    dictionary[t] = dictionary[u] => t = u
              /\ { dictionary[t] : t \in DOMAIN dictionary } = 0..(builder.current_term_ref - 1))
    /\ [][ LET old == builder.term_dictionary
               new == builder'.term_dictionary
           IN  /\ DOMAIN old \subseteq DOMAIN new
               /\ \A t \in DOMAIN old : new[t] = old[t]
               /\ \A t \in DOMAIN new \ DOMAIN old : new[t] >= builder.current_term_ref
               /\ builder'.current_term_ref =
                      builder.current_term_ref + Cardinality(DOMAIN new \ DOMAIN old)
       ]_vars

\* dog was met before cat, and a later document listing a known term was
\* added without a new TermRef being handed out
C21_Witness ==
    /\ DOMAIN builder.term_dictionary = Terms
    /\ builder.term_dictionary["dog"] = 0
    /\ builder.term_dictionary["cat"] = 1
    /\ builder.current_term_ref = 2
    /\ \E i \in Returned :
          /\ i > 1 /\ OkAt(i)
          /\ \E field \in FieldRefs : Lists(calls[i].doc, field, "dog")
          /\ \E j \in 1..(i - 1) :
                OkAt(j) /\ \E field \in FieldRefs : Lists(calls[j].doc, field, "dog")

\* C22: an add_document call that returns SegmentFull leaves the whole
\* SegmentBuilder as it was: current_doc, current_term_ref, the term
\* dictionary, the posting bitmaps, the statistics and the stored values.
C22_SegmentFullChangesNothing ==
    [][ (Len(calls') = Len(calls) + 1 /\ calls'[Len(calls')].result.tag = "SegmentFull")
            => builder' = builder
      ]_vars

\* C23: no two successful calls on one SegmentBuilder return the same
\* DocId, the empty documents after the first call holding DocIds
\* 1 .. skipped.
C23_DocIdsReturnedOnce ==
    \A i \in Returned :
        OkAt(i) =>
            /\ \A j \in Returned : (j # i /\ OkAt(j)) => calls[j].result.value # calls[i].result.value
            /\ i > 1 => calls[i].result.value \notin 1..skipped

====
